---- MODULE Spec2Model ----
(***************************************************************************)
(* QR ordering system: the relational store (restaurants, licenses,        *)
(* tables, menu items, orders, order items) and the HTTP handlers of       *)
(* orders/views.py and orders/admin.py that read and write it.             *)
(*                                                                         *)
(* Every handler is an operator from the store and the request to a result *)
(* record (status, returned order ids, new store contents); its action     *)
(* applies it for every request drawn from the input sets below and        *)
(* records the operation and the status answered in `last`.                *)
(*                                                                         *)
(* Spec is the whole system. Its state space is the product of the         *)
(* configuration (dates, restaurants, licenses, tables) and the store      *)
(* (orders, their status and items), so the properties are checked under   *)
(* slices of it, each moving the part the property reads:                 *)
(*   SpecCreate      orders are created and read, tables are added         *)
(*   SpecStatus      the orders of an open store are updated and deleted   *)
(*   SpecStaffGate   licenses, restaurants and the date change under       *)
(*                   staff requests                                        *)
(*   SpecPublicGate  restaurants, tables and the date change under         *)
(*                   public requests                                       *)
(*   SpecTables      tables are added and deleted under public requests    *)
(*   SpecCatalog     categories, menu items and restaurants are edited     *)
(*                   under menu requests                                   *)
(*   SpecSales       orders of several dates are paid and prices edited    *)
(*                   under reads of the totals and sales exports           *)
(***************************************************************************)
EXTENDS Integers, Sequences, FiniteSets, TLC

\* ------------------------------------------------------------------ bounds
MaxDay == 2
MaxTables == 3
MaxOrders == 2

\* null of a nullable column (expiry_date, Order.table)
NULL == 0

\* identities known to the auth provider; "anonymous" carries no identity
Users == {"alice", "bob", "carol", "root"}
Anonymous == "anonymous"
Callers == Users \cup {Anonymous}
is_superuser(user) == user = "root"

\* Order.STATUS_CHOICES
STATUS_CHOICES == {"PENDING", "IN_PROGRESS", "SERVED", "PAID", "CANCELLED"}
\* a missing request field (Python None)
None == "None"
\* status values a request body may carry
StatusInputs == STATUS_CHOICES \cup {"DONE", None}

\* table codes: "" is a missing/empty parameter, "TX" a code no table has
TableCodes == {"T1", "T2"}
CodeInputs == TableCodes \cup {"", "TX"}

VARIABLES
    today,        \* date.today()
    restaurants,  \* Restaurant rows
    licenses,     \* LicenseConfig rows
    tables,       \* Table rows
    categories,   \* Category rows
    menuItems,    \* MenuItem rows (price in hundredths: two decimal places)
    orders,       \* Order rows
    orderItems,   \* OrderItem rows
    nextOrderId,  \* auto-increment of Order.id
    last          \* the last operation and the status it answered

vars == <<today, restaurants, licenses, tables, categories, menuItems, orders,
          orderItems, nextOrderId, last>>
config == <<today, restaurants, licenses, tables, categories, menuItems>>
store == <<orders, orderItems, nextOrderId>>

\* --------------------------------------------------------------- tenant model
\* Restaurant.is_active_now()
is_active_now(r) ==
    r.is_active /\ (r.expiry_date = NULL \/ r.expiry_date >= today)

\* LicenseConfig.is_active()
license_is_active(l) ==
    l.expiry_date = NULL \/ l.expiry_date >= today

\* user.restaurant_owner (reverse one-to-one): the rows owned, none or one
restaurant_owner(user) == {r \in restaurants : r.owner = user}

RestaurantById(id) == CHOOSE r \in restaurants : r.id = id

\* LicenseConfig.objects.get(user=user): the rows found, none or one
LicenseOf(user) == {l \in licenses : l.user = user}

\* Table.objects.filter(code=code).first(): one row, whichever, of several
TablesByCode_first(code) ==
    LET found == {t \in tables : t.code = code}
    IN  IF found = {} THEN {} ELSE {CHOOSE t \in found : TRUE}

\* Table.objects.get(code=code): the rows matching; get answers with the
\* row when it is one, and raises DoesNotExist or MultipleObjectsReturned
TablesByCode(code) == {t \in tables : t.code = code}

MenuItemsByPk(pk) == {m \in menuItems : m.id = pk}

Pass == [allow |-> TRUE, status |-> 200, detail |-> ""]
Deny(status, detail) == [allow |-> FALSE, status |-> status, detail |-> detail]

\* ------------------------------------------------------------------- gates
\* license_required without its restaurant check (lines 29-31 dropped)
license_required_no_restaurant(user) ==
    IF user = Anonymous
    THEN Deny(401, "Authentication required")
    ELSE IF LicenseOf(user) = {}
    THEN Deny(403, "No license found")
    ELSE IF \E l \in LicenseOf(user) : ~license_is_active(l)
    THEN Deny(403, "License expired")
    ELSE Pass

\* license_required: the decision taken before the wrapped staff view runs
license_required(user) ==
    IF user = Anonymous
    THEN Deny(401, "Authentication required")
    ELSE IF LicenseOf(user) = {}
    THEN Deny(403, "No license found")
    ELSE IF \E l \in LicenseOf(user) : ~license_is_active(l)
    THEN Deny(403, "License expired")
    ELSE IF \E r \in restaurant_owner(user) : ~is_active_now(r)
    THEN Deny(403, "Restaurant expired or inactive")
    ELSE Pass

\* request.GET.get('table') or request.GET.get('table_code')
QueryTableCode(req) ==
    IF req.GET.table # "" THEN req.GET.table ELSE req.GET.table_code

\* ... or request.data.get('table_code'): the code the public gate looks at
GateTableCode(req) ==
    IF QueryTableCode(req) # "" THEN QueryTableCode(req) ELSE req.data.table_code


\* public_license_check: the decision taken before the wrapped public view
\* runs. Table.objects.get raises MultipleObjectsReturned when several
\* tables carry the code; nothing catches it and the request ends in a 500.
public_license_check(req) ==
    LET table_code == GateTableCode(req)
        found == TablesByCode(table_code)
    IN  IF table_code = "" THEN Pass
        ELSE IF found = {} THEN Deny(400, "Invalid table code")
        ELSE IF Cardinality(found) > 1 THEN Deny(500, "MultipleObjectsReturned")
        ELSE IF \E t \in found : ~is_active_now(RestaurantById(t.restaurant))
        THEN Deny(403, "Restaurant expired or inactive")
        ELSE Pass

\* ---------------------------------------------------------------- handlers
\* the result of a handler: the response and the store it leaves behind
Result(status, body, os, ois, noid) ==
    [status |-> status, body |-> body, orders |-> os, orderItems |-> ois,
     nextOrderId |-> noid]

\* a handler that answers without writing
Answer(status, body) ==
    Result(status, body, orders, orderItems, nextOrderId)

\* the loop with MenuItem.DoesNotExist left uncaught: an unknown item raises
RECURSIVE AttachItems_strict(_, _, _, _)
AttachItems_strict(order_id, items, rows, line) ==
    IF items = <<>>
    THEN [raised |-> FALSE, orderItems |-> rows]
    ELSE LET it == Head(items) IN
         IF "item_id" \notin DOMAIN it
         THEN [raised |-> TRUE, orderItems |-> rows]
         ELSE IF MenuItemsByPk(it.item_id) = {}
         THEN [raised |-> TRUE, orderItems |-> rows]
         ELSE LET qty == IF "qty" \in DOMAIN it THEN it.qty ELSE 1 IN
              IF qty < 0
              THEN [raised |-> TRUE, orderItems |-> rows]
              ELSE AttachItems_strict(order_id, Tail(items),
                       rows \cup {[order |-> order_id, line |-> line,
                                   item |-> it.item_id, qty |-> qty]},
                       line + 1)

\* the loop of api_create_order over the submitted items. No transaction
\* wraps the view and ATOMIC_REQUESTS is not set, so every
\* OrderItem.objects.create commits on its own and the rows written before
\* a raise stay. A row is identified by its order and its line in it.
RECURSIVE AttachItems(_, _, _, _)
AttachItems(order_id, items, rows, line) ==
    IF items = <<>>
    THEN [raised |-> FALSE, orderItems |-> rows]
    ELSE LET it == Head(items) IN
         IF "item_id" \notin DOMAIN it                     \* KeyError
         THEN [raised |-> TRUE, orderItems |-> rows]
         ELSE IF MenuItemsByPk(it.item_id) = {}            \* DoesNotExist: continue
         THEN AttachItems(order_id, Tail(items), rows, line)
         ELSE LET qty == IF "qty" \in DOMAIN it THEN it.qty ELSE 1 IN
              IF qty < 0                                   \* PositiveIntegerField
              THEN [raised |-> TRUE, orderItems |-> rows]
              ELSE AttachItems(order_id, Tail(items),
                       rows \cup {[order |-> order_id, line |-> line,
                                   item |-> it.item_id, qty |-> qty]},
                       line + 1)

\* menu_api with the availability filter left out of the items query
menu_api_all_items(req) ==
    LET gate == public_license_check(req)
        cats == {c \in categories : c.is_active}
    IN  IF ~gate.allow THEN Answer(gate.status, {})
        ELSE Answer(200, { [category |-> cat.id,
                            items |-> {m.id : m \in {i \in menuItems :
                                                        i.category = cat.id}}] :
                           cat \in cats })

\* menu_api behind public_license_check: one entry per active category, of
\* any restaurant, with the available items of that category (each list is
\* ordered by name; the order is not kept here)
menu_api(req) ==
    LET gate == public_license_check(req)
        cats == {c \in categories : c.is_active}
    IN  IF ~gate.allow THEN Answer(gate.status, {})
        ELSE Answer(200, { [category |-> cat.id,
                            items |-> {m.id : m \in {i \in menuItems :
                                                        /\ i.category = cat.id
                                                        /\ i.is_available}}] :
                           cat \in cats })

\* api_create_order taking the order's restaurant from the table the gate
\* resolved instead of the table the order is bound to
api_create_order_gate_restaurant(req) ==
    LET gate == public_license_check(req)
        table_code == req.data.table_code
        found == TablesByCode(table_code)
    IN  IF ~gate.allow THEN Answer(gate.status, {})
        ELSE IF table_code = "" THEN Answer(400, {})
        ELSE IF found = {} THEN Answer(400, {})
        ELSE IF Cardinality(found) > 1 THEN Answer(500, {})
        ELSE LET table == CHOOSE t \in found : TRUE
                 gated == CHOOSE t \in TablesByCode(GateTableCode(req)) : TRUE
                 order == [id |-> nextOrderId, restaurant |-> gated.restaurant,
                           table |-> table.id, status |-> "PENDING",
                           created_at |-> today]
                 loop == AttachItems(order.id, req.data.items, orderItems, 1)
             IN  Result(IF loop.raised THEN 500 ELSE 201,
                        IF loop.raised THEN {} ELSE {order.id},
                        orders \cup {order}, loop.orderItems, nextOrderId + 1)

\* api_create_order behind public_license_check
api_create_order(req) ==
    LET gate == public_license_check(req)
        table_code == req.data.table_code
        found == TablesByCode(table_code)
    IN  IF ~gate.allow THEN Answer(gate.status, {})
        ELSE IF table_code = "" THEN Answer(400, {})
        ELSE IF found = {} THEN Answer(400, {})
        ELSE IF Cardinality(found) > 1 THEN Answer(500, {})
        ELSE LET table == CHOOSE t \in found : TRUE
                 order == [id |-> nextOrderId, restaurant |-> table.restaurant,
                           table |-> table.id, status |-> "PENDING",
                           created_at |-> today]
                 loop == AttachItems(order.id, req.data.items, orderItems, 1)
             IN  Result(IF loop.raised THEN 500 ELSE 201,
                        IF loop.raised THEN {} ELSE {order.id},
                        orders \cup {order}, loop.orderItems, nextOrderId + 1)

\* api_customer_orders behind public_license_check
api_customer_orders(req) ==
    LET gate == public_license_check(req)
        table_code == QueryTableCode(req)
        found == TablesByCode(table_code)
    IN  IF ~gate.allow THEN Answer(gate.status, {})
        ELSE IF table_code = "" THEN Answer(400, {})
        ELSE IF found = {} THEN Answer(400, {})
        ELSE IF Cardinality(found) > 1 THEN Answer(500, {})
        ELSE LET table == CHOOSE t \in found : TRUE
             IN  Answer(200, {o.id : o \in {x \in orders : x.table = table.id}})

\* api_staff_orders behind license_required
api_staff_orders(user, status_q) ==
    LET gate == license_required(user)
        qs == IF status_q # None
              THEN {o \in orders : o.status = status_q}
              ELSE orders
    IN  IF ~gate.allow THEN Answer(gate.status, {})
        ELSE Answer(200, {o.id : o \in qs})

\* api_update_order with a transition table: a terminal order is not rewritten
api_update_order_terminal(user, order_id, new_status) ==
    LET gate == license_required(user)
        found == {o \in orders : o.id = order_id}
    IN  IF ~gate.allow THEN Answer(gate.status, {})
        ELSE IF found = {} THEN Answer(404, {})
        ELSE IF new_status \notin STATUS_CHOICES THEN Answer(400, {})
        ELSE IF \E o \in found : o.status \in {"PAID", "CANCELLED"} THEN Answer(400, {})
        ELSE Result(200, {order_id},
                    (orders \ found) \cup {[o EXCEPT !.status = new_status] : o \in found},
                    orderItems, nextOrderId)

\* api_update_order behind license_required
api_update_order(user, order_id, new_status) ==
    LET gate == license_required(user)
        found == {o \in orders : o.id = order_id}
    IN  IF ~gate.allow THEN Answer(gate.status, {})
        ELSE IF found = {} THEN Answer(404, {})
        ELSE IF new_status \notin STATUS_CHOICES THEN Answer(400, {})
        ELSE Result(200, {order_id},
                    (orders \ found) \cup {[o EXCEPT !.status = new_status] : o \in found},
                    orderItems, nextOrderId)

\* OrderViewSet.partial_update: the router's PATCH /api/orders/<pk>/. The
\* viewset names no permission class, so DEFAULT_PERMISSION_CLASSES (AllowAny)
\* applies and the caller is never looked at
OrderViewSet_partial_update(user, pk, status_value) ==
    LET found == {o \in orders : o.id = pk}
    IN  IF found = {} THEN Answer(404, {})
        ELSE IF status_value \in STATUS_CHOICES
        THEN Result(200, {pk},
                    (orders \ found) \cup {[o EXCEPT !.status = status_value] : o \in found},
                    orderItems, nextOrderId)
        ELSE Answer(400, {})

\* OrderViewSet.destroy (ModelViewSet): the router's DELETE /api/orders/<pk>/;
\* the order's items go with it (on_delete=CASCADE)
OrderViewSet_destroy(user, pk) ==
    LET found == {o \in orders : o.id = pk}
    IN  IF found = {} THEN Answer(404, {})
        ELSE Result(204, {}, orders \ found,
                    {i \in orderItems : i.order # pk}, nextOrderId)

\* OrderAdmin.get_queryset
OrderAdmin_get_queryset(user) ==
    IF is_superuser(user) THEN orders
    ELSE {o \in orders : RestaurantById(o.restaurant).owner = user}

\* ------------------------------------------------------------------ totals
\* order.items: the OrderItem rows of an order
order_items(order_id, rows) == {i \in rows : i.order = order_id}

\* item.price, in hundredths
item_price(item_id, menu) == (CHOOSE m \in menu : m.id = item_id).price

\* Sum(F("qty") * F("item__price")) over a set of OrderItem rows
RECURSIVE SumQtyPrice(_, _)
SumQtyPrice(rows, menu) ==
    IF rows = {} THEN 0
    ELSE LET i == CHOOSE x \in rows : TRUE
         IN  i.qty * item_price(i.item, menu) + SumQtyPrice(rows \ {i}, menu)

\* the aggregate summing the unit prices, qty left out
RECURSIVE SumPrice(_, _)
SumPrice(rows, menu) ==
    IF rows = {} THEN 0
    ELSE LET i == CHOOSE x \in rows : TRUE
         IN  item_price(i.item, menu) + SumPrice(rows \ {i}, menu)

\* Order.total_amount summing unit prices only
total_amount_unit_prices(order_id, rows, menu) ==
    SumPrice(order_items(order_id, rows), menu)

\* Order.total_amount: the aggregate over the order's items, or 0 when the
\* aggregate is null (no item); a Decimal, here in hundredths
total_amount(order_id, rows, menu) ==
    LET its == order_items(order_id, rows)
    IN  IF its = {} THEN 0 ELSE SumQtyPrice(its, menu)

\* 2^n modulo 100 (from n = 2 on the residues repeat every 20)
RECURSIVE Pow2Mod100(_)
Pow2Mod100(n) == IF n < 22 THEN (2^n) % 100 ELSE Pow2Mod100(n - 20)

\* the binary exponent of c hundredths: 2^k <= c/100 < 2^(k+1)
FloatExponent(c) ==
    IF c >= 100
    THEN CHOOSE k \in 0 .. 20 : 100 * 2^k <= c /\ c < 100 * 2^(k + 1)
    ELSE 0 - (CHOOSE j \in 1 .. 7 : c * 2^j >= 100 /\ c * 2^(j - 1) < 100)

\* float(total): the double nearest to c hundredths. With shift s = 52 - k
\* the double is m / 2^s for the integer m nearest to c * 2^s / 100; it is
\* kept as c, s and delta = 100 * m - c * 2^s, so that its value is
\* (c * 2^s + delta) / (100 * 2^s). (c * 2^s is a multiple of 4, so the
\* remainder is never 50 and no tie arises.)
Float(c) ==
    IF c = 0 THEN [cents |-> 0, shift |-> 0, delta |-> 0]
    ELSE LET s == 52 - FloatExponent(c)
             r == ((c % 100) * Pow2Mod100(s)) % 100
         IN  [cents |-> c, shift |-> s, delta |-> IF r < 50 THEN 0 - r ELSE 100 - r]

\* the hundredth nearest to a double: 100 * f is cents + delta / 2^shift
NearestHundredth(f) ==
    LET mag == IF f.delta < 0 THEN 0 - f.delta ELSE f.delta
        half == IF f.shift >= 8 THEN TRUE ELSE 2 * mag < 2^f.shift
    IN  IF half THEN f.cents
        ELSE IF f.delta > 0 THEN f.cents + 1 ELSE f.cents - 1

\* OrderSerializer.get_total_amount: round(float(total), 2) of the same
\* aggregate, a double
get_total_amount(order_id, rows, menu) ==
    LET its == order_items(order_id, rows)
        total == IF its = {} THEN 0 ELSE SumQtyPrice(its, menu)
    IN  Float(NearestHundredth(Float(total)))

\* ------------------------------------------------------------------- sales
\* Order.Meta.ordering = ["-created_at"]: the rows newest first (rows of one
\* date by id)
RECURSIVE order_by_created_at(_)
order_by_created_at(qs) ==
    IF qs = {} THEN <<>>
    ELSE LET first == CHOOSE o \in qs : \A p \in qs :
                          \/ o.created_at > p.created_at
                          \/ o.created_at = p.created_at /\ o.id >= p.id
         IN  <<first>> \o order_by_created_at(qs \ {first})

\* the loop of export_sales_csv: a row per order of the queryset, the totals
\* added up. The Table column (the table's name, '' without table) holds the
\* table's row id, NULL without table.
RECURSIVE export_loop(_, _, _)
export_loop(queryset, written, total_sum) ==
    IF queryset = <<>>
    THEN [rows |-> written, total_sum |-> total_sum]
    ELSE LET order == Head(queryset)
             total == total_amount(order.id, orderItems, menuItems)
         IN  export_loop(Tail(queryset),
                         Append(written, [id |-> order.id, table |-> order.table,
                                          status |-> order.status,
                                          created_at |-> order.created_at,
                                          total |-> total]),
                         total_sum + total)

\* export_sales_csv: the order rows and the TOTAL SALES value of the file
export_sales_csv(queryset) == export_loop(order_by_created_at(queryset), <<>>, 0)

\* now().date().replace(day=1); dates are days of a year that is no leap
\* year, 1 being January 1
first_of_month(d) == IF d <= 31 THEN 1 ELSE IF d <= 59 THEN 32 ELSE 60

\* export_daily_sales with the status filter left out
export_daily_sales_any_status(queryset) ==
    export_sales_csv({o \in queryset : o.created_at = today})

\* OrderAdmin.export_daily_sales on the orders selected in the list
export_daily_sales(queryset) ==
    export_sales_csv({o \in queryset : o.created_at = today /\ o.status = "PAID"})

\* OrderAdmin.export_weekly_sales
export_weekly_sales(queryset) ==
    LET start == today - 7
    IN  export_sales_csv({o \in queryset : o.created_at >= start /\ o.status = "PAID"})

\* OrderAdmin.export_monthly_sales
export_monthly_sales(queryset) ==
    LET start == first_of_month(today)
    IN  export_sales_csv({o \in queryset : o.created_at >= start /\ o.status = "PAID"})

\* ---------------------------------------------------------- request inputs
ExpiryInputs == {NULL} \cup (1 .. (MaxDay - 1))

\* the query string of a public request: ?table=..&table_code=..
GetInputs == [table : CodeInputs, table_code : {"", "T2"}]

\* entries of a submitted items list (Python dicts: a key may be absent)
Dish1x2 == [item_id |-> 1, qty |-> 2]
Dish2 == [item_id |-> 2]
NoSuchDish == [item_id |-> 99, qty |-> 1]     \* no menu item has id 99
NoItemId == [qty |-> 1]
BadQty == [item_id |-> 1, qty |-> -1]

\* the items lists submitted
ItemLists ==
    { <<>>,
      <<Dish1x2>>, <<Dish2>>, <<BadQty>>,
      <<Dish1x2, Dish2>>,
      <<Dish1x2, NoSuchDish>>, <<NoSuchDish, Dish2>>,
      <<Dish1x2, NoItemId>>, <<NoItemId, Dish1x2>>,
      <<Dish2, BadQty>> }

CreateRequest(g, c, its) == [GET |-> g, data |-> [table_code |-> c, items |-> its]]

CreateRequests ==
    { CreateRequest(g, c, its) : g \in GetInputs, c \in CodeInputs, its \in ItemLists }

CustomerRequests ==
    { [GET |-> g, data |-> [table_code |-> ""]] : g \in GetInputs }

\* GET /api/menu/?table=..
MenuRequests ==
    { [GET |-> g, data |-> [table_code |-> ""]] : g \in GetInputs }

OrderIdInputs == 1 .. (MaxOrders + 1)

StatusQueryInputs == {None, "PENDING", "PAID"}

\* a price typed into the menu item form, in hundredths
PriceInputs == {1999}

\* Bill.status
BillStatusInputs == {"pending", "paid"}

\* ------------------------------------------------------------------ actions
InitRows ==
    /\ restaurants =
         { [id |-> "A", owner |-> "alice", is_active |-> TRUE, expiry_date |-> NULL],
           [id |-> "B", owner |-> "bob", is_active |-> TRUE, expiry_date |-> NULL] }
    /\ licenses = { [user |-> u, expiry_date |-> NULL] : u \in Users }
    /\ tables = { [id |-> 1, restaurant |-> "A", code |-> "T1"],
                  [id |-> 2, restaurant |-> "B", code |-> "T2"] }
    /\ categories = { [id |-> 1, restaurant |-> "A", is_active |-> TRUE],
                      [id |-> 2, restaurant |-> "B", is_active |-> TRUE] }
    /\ menuItems = { [id |-> 1, restaurant |-> "A", category |-> 1,
                      price |-> 550, is_available |-> TRUE],
                     [id |-> 2, restaurant |-> "B", category |-> 2,
                      price |-> 310, is_available |-> TRUE] }
    /\ last = [op |-> "init", status |-> 0]

InitConfig ==
    /\ today = 1
    /\ InitRows

\* two provisioned restaurants, no order yet
Init ==
    /\ InitConfig
    /\ orders = {}
    /\ orderItems = {}
    /\ nextOrderId = 1

\* the store after MaxOrders customers ordered in turn at tables 1 and 2,
\* each one dish of the table's restaurant, twice
OpenOrders ==
    { [id |-> i, restaurant |-> IF i % 2 = 1 THEN "A" ELSE "B",
       table |-> IF i % 2 = 1 THEN 1 ELSE 2, status |-> "PENDING",
       created_at |-> 1] : i \in 1 .. MaxOrders }

OpenOrderItems ==
    { [order |-> i, line |-> 1, item |-> IF i % 2 = 1 THEN 1 ELSE 2, qty |-> 2] :
        i \in 1 .. MaxOrders }

InitOpen ==
    /\ InitConfig
    /\ orders = OpenOrders
    /\ orderItems = OpenOrderItems
    /\ nextOrderId = MaxOrders + 1

\* the same store one order earlier: the last of the MaxOrders customers has
\* not ordered yet
InitServing ==
    /\ InitConfig
    /\ orders = {o \in OpenOrders : o.id < MaxOrders}
    /\ orderItems = {i \in OpenOrderItems : i.order < MaxOrders}
    /\ nextOrderId = MaxOrders

\* dates orders were placed on: January 1, February 1, 2 and 9
SalesDays == {1, 32, 33, 40}

\* the item rows of the open store, or of the open store whose first order
\* holds a second dish and whose last order has no item
SalesItemRows ==
    { OpenOrderItems,
      {i \in OpenOrderItems : i.order # MaxOrders}
          \cup {[order |-> 1, line |-> 2, item |-> 2, qty |-> 1]} }

\* the open store on February 9, its orders placed on any of SalesDays
InitSales ==
    /\ today = 40
    /\ InitRows
    /\ \E days \in [1 .. MaxOrders -> SalesDays] :
          orders = {[o EXCEPT !.created_at = days[o.id]] : o \in OpenOrders}
    /\ orderItems \in SalesItemRows
    /\ nextOrderId = MaxOrders + 1

\* a request handled: the store the handler leaves and the status it answered
Handled(op, r) ==
    /\ orders' = r.orders
    /\ orderItems' = r.orderItems
    /\ nextOrderId' = r.nextOrderId
    /\ last' = [op |-> op, status |-> r.status]
    /\ UNCHANGED config

\* an edit of the configuration through the admin site
Administered(op) ==
    /\ last' = [op |-> op, status |-> 0]
    /\ UNCHANGED store

\* the date moves on
Tick ==
    /\ today < MaxDay
    /\ today' = today + 1
    /\ UNCHANGED <<restaurants, licenses, tables, categories, menuItems>>
    /\ Administered("tick")

\* RestaurantAdmin: is_active and expiry_date of a restaurant are edited
AdminSaveRestaurant ==
    \E r \in restaurants, a \in BOOLEAN, e \in ExpiryInputs :
        /\ restaurants' = (restaurants \ {r})
                            \cup {[r EXCEPT !.is_active = a, !.expiry_date = e]}
        /\ UNCHANGED <<today, licenses, tables, categories, menuItems>>
        /\ Administered("restaurant")

\* LicenseConfigAdmin: a user's license is added or its expiry_date edited
AdminSaveLicense ==
    \E u \in Users, e \in ExpiryInputs :
        /\ licenses' = (licenses \ LicenseOf(u)) \cup {[user |-> u, expiry_date |-> e]}
        /\ UNCHANGED <<today, restaurants, tables, categories, menuItems>>
        /\ Administered("license")

\* LicenseConfigAdmin: a user's license is deleted
AdminDeleteLicense ==
    \E u \in Users :
        /\ LicenseOf(u) # {}
        /\ licenses' = licenses \ LicenseOf(u)
        /\ UNCHANGED <<today, restaurants, tables, categories, menuItems>>
        /\ Administered("license")

\* CategoryAdmin: is_active is edited in the list (list_editable)
AdminListEditCategory ==
    \E c \in categories, a \in BOOLEAN :
        /\ categories' = (categories \ {c}) \cup {[c EXCEPT !.is_active = a]}
        /\ UNCHANGED <<today, restaurants, licenses, tables, menuItems>>
        /\ Administered("category")

\* MenuItemAdmin: is_available is edited in the list (list_editable)
AdminListEditMenuItem ==
    \E m \in menuItems, a \in BOOLEAN :
        /\ menuItems' = (menuItems \ {m}) \cup {[m EXCEPT !.is_available = a]}
        /\ UNCHANGED <<today, restaurants, licenses, tables, categories>>
        /\ Administered("menu_item_available")

\* MenuItemAdmin: the price of a menu item is edited in its form
AdminSaveMenuItem ==
    \E m \in menuItems, p \in PriceInputs :
        /\ menuItems' = (menuItems \ {m}) \cup {[m EXCEPT !.price = p]}
        /\ UNCHANGED <<today, restaurants, licenses, tables, categories>>
        /\ Administered("menu_item_price")

\* Bill.save: a bill saved as paid marks its order PAID
Bill_save ==
    \E o \in orders, status \in BillStatusInputs :
        /\ orders' = IF status = "paid" /\ o.status # "PAID"
                      THEN (orders \ {o}) \cup {[o EXCEPT !.status = "PAID"]}
                      ELSE orders
        /\ last' = [op |-> "bill_save", status |-> 0]
        /\ UNCHANGED <<config, orderItems, nextOrderId>>

\* OrderAdmin actions: the sales exports of the orders selected in the list
ExportDailySales ==
    \E user \in Users :
        \E queryset \in SUBSET OrderAdmin_get_queryset(user) :
            Handled("export_daily_sales", Answer(200, export_daily_sales(queryset)))

ExportWeeklySales ==
    \E user \in Users :
        \E queryset \in SUBSET OrderAdmin_get_queryset(user) :
            Handled("export_weekly_sales", Answer(200, export_weekly_sales(queryset)))

ExportMonthlySales ==
    \E user \in Users :
        \E queryset \in SUBSET OrderAdmin_get_queryset(user) :
            Handled("export_monthly_sales", Answer(200, export_monthly_sales(queryset)))

\* TableAdmin: a table is added; (restaurant, code) is unique together. The
\* new row takes the first id no table holds.
AdminAddTable ==
    \E r \in restaurants, c \in TableCodes :
        /\ Cardinality(tables) < MaxTables
        /\ ~\E t \in tables : t.restaurant = r.id /\ t.code = c
        /\ LET free == {i \in 1 .. MaxTables : ~\E t \in tables : t.id = i}
               id == CHOOSE i \in free : \A j \in free : i <= j
           IN  tables' = tables \cup {[id |-> id, restaurant |-> r.id, code |-> c]}
        /\ UNCHANGED <<today, restaurants, licenses, categories, menuItems>>
        /\ Administered("table")

\* TableAdmin: a table is deleted; its orders stay with table set to null
\* (Order.table on_delete=SET_NULL)
AdminDeleteTable ==
    \E t \in tables :
        /\ tables' = tables \ {t}
        /\ orders' = {IF o.table = t.id THEN [o EXCEPT !.table = NULL] ELSE o : o \in orders}
        /\ last' = [op |-> "table_delete", status |-> 0]
        /\ UNCHANGED <<today, restaurants, licenses, categories, menuItems,
                       orderItems, nextOrderId>>

\* POST /api/orders/create/. The items of a request answered before the
\* loop are never read, so such a request is drawn with an empty list only;
\* Order.id stops at MaxOrders.
CreateOrder ==
    \E g \in GetInputs, c \in CodeInputs :
        LET probe == api_create_order(CreateRequest(g, c, <<>>)) IN
        \E its \in IF probe.status = 201 THEN ItemLists ELSE {<<>>} :
            LET r == api_create_order(CreateRequest(g, c, its)) IN
            /\ r.nextOrderId <= MaxOrders + 1
            /\ Handled("api_create_order", r)

\* GET /api/menu/
MenuApi ==
    \E req \in MenuRequests :
        Handled("menu_api", menu_api(req))

\* GET /api/orders/customer/
CustomerOrders ==
    \E req \in CustomerRequests :
        Handled("api_customer_orders", api_customer_orders(req))

\* GET /api/orders/staff/
StaffOrders ==
    \E user \in Callers, status_q \in StatusQueryInputs :
        Handled("api_staff_orders", api_staff_orders(user, status_q))

\* PATCH /api/orders/<id>/update/
UpdateOrder ==
    \E user \in Callers, order_id \in OrderIdInputs, new_status \in StatusInputs :
        Handled("api_update_order", api_update_order(user, order_id, new_status))

\* PATCH /api/orders/<pk>/
ViewSetPartialUpdate ==
    \E user \in Callers, pk \in OrderIdInputs, status_value \in StatusInputs :
        Handled("partial_update", OrderViewSet_partial_update(user, pk, status_value))

\* DELETE /api/orders/<pk>/
ViewSetDestroy ==
    \E user \in Callers, pk \in OrderIdInputs :
        Handled("destroy", OrderViewSet_destroy(user, pk))

\* the admin site's order list
AdminOrderList ==
    \E user \in Users :
        Handled("admin_orders", Answer(200, {o.id : o \in OrderAdmin_get_queryset(user)}))

Next ==
    \/ Tick
    \/ AdminSaveRestaurant
    \/ AdminSaveLicense
    \/ AdminDeleteLicense
    \/ AdminListEditCategory
    \/ AdminListEditMenuItem
    \/ AdminAddTable
    \/ AdminDeleteTable
    \/ MenuApi
    \/ CreateOrder
    \/ CustomerOrders
    \/ StaffOrders
    \/ UpdateOrder
    \/ ViewSetPartialUpdate
    \/ ViewSetDestroy
    \/ AdminOrderList
    \/ AdminSaveMenuItem
    \/ Bill_save
    \/ ExportDailySales
    \/ ExportWeeklySales
    \/ ExportMonthlySales

Spec == Init /\ [][Next]_vars

NextCreate ==
    \/ AdminAddTable
    \/ CreateOrder
    \/ CustomerOrders
    \/ StaffOrders
    \/ AdminOrderList

SpecCreate == Init /\ [][NextCreate]_vars

NextStatus ==
    \/ UpdateOrder
    \/ ViewSetPartialUpdate
    \/ ViewSetDestroy
    \/ StaffOrders
    \/ AdminOrderList

SpecStatus == InitOpen /\ [][NextStatus]_vars

NextStaffGate ==
    \/ Tick
    \/ AdminSaveRestaurant
    \/ AdminSaveLicense
    \/ AdminDeleteLicense
    \/ StaffOrders

SpecStaffGate == InitOpen /\ [][NextStaffGate]_vars

NextPublicGate ==
    \/ Tick
    \/ AdminSaveRestaurant
    \/ AdminAddTable
    \/ CreateOrder
    \/ CustomerOrders

SpecPublicGate == InitServing /\ [][NextPublicGate]_vars

NextTables ==
    \/ AdminAddTable
    \/ AdminDeleteTable
    \/ CreateOrder
    \/ CustomerOrders

SpecTables == InitServing /\ [][NextTables]_vars

NextCatalog ==
    \/ AdminSaveRestaurant
    \/ AdminListEditCategory
    \/ AdminListEditMenuItem
    \/ MenuApi

SpecCatalog == Init /\ [][NextCatalog]_vars

NextSales ==
    \/ AdminSaveMenuItem
    \/ Bill_save
    \/ StaffOrders
    \/ AdminOrderList
    \/ ExportDailySales
    \/ ExportWeeklySales
    \/ ExportMonthlySales

SpecSales == InitSales /\ [][NextSales]_vars

\* ------------------------------------------------------------- properties
\* what the properties read off a request and the store, stated without the
\* handlers

\* the staff gate's condition: authenticated, a license that is active, and
\* no restaurant or one that is active now
StaffMayProceed(user) ==
    /\ user \in Users
    /\ \E l \in licenses :
          l.user = user /\ (l.expiry_date = NULL \/ l.expiry_date >= today)
    /\ \A r \in restaurants :
          r.owner = user =>
              r.is_active /\ (r.expiry_date = NULL \/ r.expiry_date >= today)

OwnerOf(order) == (CHOOSE r \in restaurants : r.id = order.restaurant).owner

OrderOfId(id) == CHOOSE o \in orders : o.id = id

\* the table code a public request bears: the query string's before the body's
BorneCode(req) ==
    IF req.GET.table # "" THEN req.GET.table
    ELSE IF req.GET.table_code # "" THEN req.GET.table_code
    ELSE req.data.table_code

Coded(code) == {t \in tables : t.code = code}

ActiveNow(t) ==
    \E r \in restaurants :
        /\ r.id = t.restaurant
        /\ r.is_active
        /\ (r.expiry_date = NULL \/ r.expiry_date >= today)

\* the public gate lets the request through
GateOpen(req) ==
    \/ BorneCode(req) = ""
    \/ Cardinality(Coded(BorneCode(req))) = 1 /\ \A t \in Coded(BorneCode(req)) : ActiveNow(t)

Untouched(r) ==
    r.orders = orders /\ r.orderItems = orderItems /\ r.nextOrderId = nextOrderId

Resolves(it) == "item_id" \in DOMAIN it /\ \E m \in menuItems : m.id = it.item_id

WellFormed(it) == "item_id" \in DOMAIN it /\ ("qty" \in DOMAIN it => it.qty >= 0)

\* the rows an order holds when it has one per resolvable entry, in order
ExpectedRows(order_id, items) ==
    LET kept == SelectSeq(items, Resolves)
    IN  { [order |-> order_id, line |-> k, item |-> kept[k].item_id,
           qty |-> IF "qty" \in DOMAIN kept[k] THEN kept[k].qty ELSE 1] :
            k \in 1 .. Len(kept) }

RowsOf(rows, order_id) == {i \in rows : i.order = order_id}

\* C1: every step taken by an api_create_order request either persists
\* nothing or persists the order together with every item entry that
\* resolves; an order with only a prefix of its resolvable items is never
\* left behind.
C1_CreateIsAtomic ==
    [][\A req \in CreateRequests :
          LET r == api_create_order(req) IN
          ( /\ last'.op = "api_create_order"
            /\ last'.status = r.status
            /\ orders' = r.orders
            /\ orderItems' = r.orderItems )
          => \/ Untouched(r)
             \/ \E o \in r.orders \ orders :
                   RowsOf(r.orderItems, o.id) = ExpectedRows(o.id, req.data.items)]_vars

\* C2: under a table-code collision a customer-orders request never returns
\* orders of more than one restaurant: it returns only orders of the one
\* table its code resolves to, or it is rejected and returns nothing; and
\* api_create_order binds a new order only to the one table its table_code
\* resolves to, with that table's restaurant.
C2_TenantIsolation ==
    /\ \A req \in CustomerRequests :
          LET r == api_customer_orders(req)
              code == IF req.GET.table # "" THEN req.GET.table ELSE req.GET.table_code
              returned == {o \in orders : o.id \in r.body}
          IN  /\ Cardinality({o.restaurant : o \in returned}) <= 1
              /\ Cardinality(Coded(code)) > 1 => r.status # 200 /\ r.body = {}
              /\ r.status = 200 =>
                    /\ Cardinality(Coded(code)) = 1
                    /\ \A o \in returned : \A t \in Coded(code) :
                          o.table = t.id /\ o.restaurant = t.restaurant
    /\ \A req \in CreateRequests :
          LET r == api_create_order(req) IN
          \A o \in r.orders \ orders :
              /\ Cardinality(Coded(req.data.table_code)) = 1
              /\ \A t \in Coded(req.data.table_code) :
                    o.table = t.id /\ o.restaurant = t.restaurant

\* two restaurants own a table of the same code, one of them has an order,
\* and the customer-orders request for that code was just rejected
C2_Witness ==
    /\ last.op = "api_customer_orders"
    /\ last.status = 500
    /\ \E t1 \in tables, t2 \in tables :
          /\ t1.code = t2.code
          /\ t1.restaurant # t2.restaurant
          /\ \E o \in orders : o.table = t1.id

\* C3: every order list given to an identity that is no super-administrator
\* (api_staff_orders, OrderAdmin.get_queryset) holds only orders of the
\* restaurant that identity owns, and none when it owns no restaurant.
C3_ListsAreScoped ==
    \A user \in Users :
        ~is_superuser(user) =>
            /\ \A q \in StatusQueryInputs :
                  \A id \in api_staff_orders(user, q).body : OwnerOf(OrderOfId(id)) = user
            /\ \A o \in OrderAdmin_get_queryset(user) : OwnerOf(o) = user

\* the caller may change the order: the staff gate lets it through and it
\* owns the order's restaurant or is a super-administrator
MayMutate(user, pk) ==
    /\ StaffMayProceed(user)
    /\ \/ is_superuser(user)
       \/ \E o \in orders : o.id = pk /\ OwnerOf(o) = user

\* C4: in every step of a route that changes or deletes an order
\* (api_update_order, the viewset's partial_update and destroy) the order
\* changes only when the
\* caller is authenticated, passes the staff gate and owns the order's
\* restaurant or is a super-administrator.
C4_MutationNeedsAuthority ==
    [][\A user \in Callers, pk \in OrderIdInputs :
          /\ ( /\ last'.op = "destroy"
               /\ orders' = OrderViewSet_destroy(user, pk).orders
               /\ orders' # orders ) => MayMutate(user, pk)
          /\ \A s \in StatusInputs :
                /\ ( /\ last'.op = "partial_update"
                     /\ orders' = OrderViewSet_partial_update(user, pk, s).orders
                     /\ orders' # orders ) => MayMutate(user, pk)
                /\ ( /\ last'.op = "api_update_order"
                     /\ orders' = api_update_order(user, pk, s).orders
                     /\ orders' # orders ) => MayMutate(user, pk)]_vars

\* C5: license_required lets the staff operation run exactly when the caller
\* is authenticated, has a license that is active and owns no restaurant or
\* one that is active now; otherwise the view is not run: 401 without
\* identity, 403 for a missing or expired license or an inactive restaurant.
C5_StaffGate ==
    \A user \in Callers :
        LET gate == license_required(user)
            refusal == IF user = Anonymous THEN 401 ELSE 403
        IN  /\ gate.allow <=> StaffMayProceed(user)
            /\ ~gate.allow => gate.status = refusal
            /\ \A q \in StatusQueryInputs :
                  LET r == api_staff_orders(user, q) IN
                  IF StaffMayProceed(user)
                  THEN r.status = 200
                  ELSE r.status = refusal /\ r.body = {}
            /\ \A pk \in OrderIdInputs, s \in StatusInputs :
                  LET r == api_update_order(user, pk, s) IN
                  ~StaffMayProceed(user) => r.status = refusal /\ Untouched(r)

\* a staff request was just refused with 403 while a user's license has
\* expired and the restaurant that user owns is flagged active
C5_Witness ==
    /\ last.op = "api_staff_orders"
    /\ last.status = 403
    /\ \E l \in licenses, r \in restaurants :
          /\ l.expiry_date # NULL /\ l.expiry_date < today
          /\ r.owner = l.user /\ r.is_active
          /\ license_required(l.user).status = 403

\* C6: a create request bearing the table code of a restaurant that is not
\* active now is turned away by public_license_check: no step of
\* api_create_order on such a request creates an order or an order item.
C6_NoOrderForInactive ==
    [][\A req \in CreateRequests :
          LET r == api_create_order(req) IN
          ( /\ last'.op = "api_create_order"
            /\ last'.status = r.status
            /\ orders' = r.orders
            /\ orderItems' = r.orderItems
            /\ \E t \in Coded(req.data.table_code) : ~ActiveNow(t) )
          => orders' = orders /\ orderItems' = orderItems]_vars

\* C6 for the one code public_license_check reads (BorneCode): an unknown
\* code is answered 400, a code of a table whose restaurant is not active now
\* is answered 403, in both cases nothing is created and nothing returned;
\* the operation succeeds only when that code resolves to a table whose
\* restaurant is active now.
C6_PublicGate ==
    /\ \A req \in CreateRequests :
          LET r == api_create_order(req)
              code == BorneCode(req)
          IN  code # "" =>
                /\ Coded(code) = {} => r.status = 400 /\ Untouched(r) /\ r.body = {}
                /\ (Cardinality(Coded(code)) = 1 /\ \E t \in Coded(code) : ~ActiveNow(t))
                      => r.status = 403 /\ Untouched(r) /\ r.body = {}
                /\ r.status = 201 =>
                      Cardinality(Coded(code)) = 1 /\ \A t \in Coded(code) : ActiveNow(t)
    /\ \A req \in CustomerRequests :
          LET r == api_customer_orders(req)
              code == BorneCode(req)
          IN  code # "" =>
                /\ Coded(code) = {} => r.status = 400 /\ r.body = {}
                /\ (Cardinality(Coded(code)) = 1 /\ \E t \in Coded(code) : ~ActiveNow(t))
                      => r.status = 403 /\ r.body = {}
                /\ r.status = 200 =>
                      Cardinality(Coded(code)) = 1 /\ \A t \in Coded(code) : ActiveNow(t)

\* a customer-orders request was just refused with 403: a table with orders
\* belongs to a restaurant that is not active now
C6_Witness ==
    /\ last.op = "api_customer_orders"
    /\ last.status = 403
    /\ \E t \in tables :
          /\ Cardinality(Coded(t.code)) = 1
          /\ ~ActiveNow(t)
          /\ \E o \in orders : o.table = t.id

Rank(status) ==
    CASE status = "PENDING" -> 1
      [] status = "IN_PROGRESS" -> 2
      [] status = "SERVED" -> 3
      [] status = "PAID" -> 4
      [] OTHER -> 5

Forward(from, to) ==
    \/ from = to
    \/ /\ from \notin {"PAID", "CANCELLED"}
       /\ to = "CANCELLED" \/ Rank(to) > Rank(from)

\* C7: an order's status only moves forward along PENDING, IN_PROGRESS,
\* SERVED, PAID or into CANCELLED from a status that is not terminal: in
\* every step an order that stays keeps its status or moves forward, and a
\* PAID or CANCELLED order never changes.
C7_StatusMovesForward ==
    [][\A o \in orders : \A p \in orders' : p.id = o.id => Forward(o.status, p.status)]_vars

\* C8: for a caller the staff gate lets through, api_update_order on an
\* existing order sets its status to the requested value exactly when that
\* value is one of the five statuses, whatever the current status; another or
\* missing value answers 400 and an unknown id 404, both changing nothing;
\* the other orders and all order items are never changed.
C8_UpdateWritesAnyStatus ==
    \A user \in Callers, pk \in OrderIdInputs, s \in StatusInputs :
        LET r == api_update_order(user, pk, s)
            target == {o \in orders : o.id = pk}
            five == {"PENDING", "IN_PROGRESS", "SERVED", "PAID", "CANCELLED"}
        IN  StaffMayProceed(user) =>
              /\ r.orderItems = orderItems
              /\ \A o \in orders : o.id # pk => o \in r.orders
              /\ {o.id : o \in r.orders} = {o.id : o \in orders}
              /\ target = {} => r.status = 404 /\ Untouched(r)
              /\ (target # {} /\ s \in five) =>
                    /\ r.status = 200
                    /\ \A o \in target : [o EXCEPT !.status = s] \in r.orders
              /\ (target # {} /\ s \notin five) => r.status = 400 /\ Untouched(r)

\* an update was just answered 200 and left one order PAID beside another
\* that is still PENDING
C8_Witness ==
    /\ last.op = "api_update_order"
    /\ last.status = 200
    /\ \E o \in orders, p \in orders : o.status = "PAID" /\ p.status = "PENDING"

\* C9: a create request that the gate lets through, whose table_code resolves
\* and whose entries all carry an item_id and a qty the store accepts, is
\* answered 201 whichever of its item_ids do not exist, and the new order
\* holds exactly one item per entry that resolves, with that entry's qty
\* (1 when it gives none), and none for the others.
C9_UnknownItemsSkipped ==
    \A req \in CreateRequests :
        LET r == api_create_order(req)
            items == req.data.items
        IN  ( /\ GateOpen(req)
              /\ Cardinality(Coded(req.data.table_code)) = 1
              /\ \A k \in 1 .. Len(items) : WellFormed(items[k]) )
            => /\ r.status = 201
               /\ \E o \in r.orders \ orders :
                     /\ r.orders = orders \cup {o}
                     /\ o.id \in r.body
                     /\ r.orderItems = orderItems \cup ExpectedRows(o.id, items)
                     /\ RowsOf(orderItems, o.id) = {}

\* a create was just answered 201, an order holds the single item (1, qty 2),
\* and a request listing that item beside an unknown one is answered 201
C9_Witness ==
    /\ last.op = "api_create_order"
    /\ last.status = 201
    /\ \E o \in orders :
          RowsOf(orderItems, o.id) = {[order |-> o.id, line |-> 1, item |-> 1, qty |-> 2]}
    /\ \E req \in CreateRequests :
          /\ \E k \in 1 .. Len(req.data.items) : ~Resolves(req.data.items[k])
          /\ \E k \in 1 .. Len(req.data.items) : Resolves(req.data.items[k])
          /\ api_create_order(req).status = 201

MissingOrUnknown(code) == code = "" \/ Coded(code) = {}

QueryCode(req) == IF req.GET.table # "" THEN req.GET.table ELSE req.GET.table_code

\* C10 as claimed: api_create_order with a missing or unknown table_code
\* answers 400 and persists nothing.
C10_Always400 ==
    \A req \in CreateRequests :
        MissingOrUnknown(req.data.table_code) =>
            LET r == api_create_order(req) IN r.status = 400 /\ Untouched(r)

\* C10 as the code has it: api_create_order with a missing or unknown
\* table_code in the body persists nothing; it answers 400 unless the query
\* string carries a table code, which public_license_check judges first: 403
\* when the one table of that code belongs to a restaurant not active now,
\* 500 when several tables carry that code.
C10_NoTableNoOrder ==
    \A req \in CreateRequests :
        MissingOrUnknown(req.data.table_code) =>
            LET r == api_create_order(req)
                q == Coded(QueryCode(req))
            IN  /\ Untouched(r)
                /\ r.body = {}
                /\ r.status =
                     IF Cardinality(q) > 1 THEN 500
                     ELSE IF \E t \in q : ~ActiveNow(t) THEN 403
                     ELSE 400

\* a create was just answered 400, and a request without table_code is
\* answered 400 while one whose query string names a table of a restaurant
\* not active now is answered 403
C10_Witness ==
    /\ last.op = "api_create_order"
    /\ last.status = 400
    /\ \E req \in CreateRequests :
          /\ req.data.table_code = ""
          /\ QueryCode(req) = ""
          /\ api_create_order(req).status = 400
    /\ \E req \in CreateRequests :
          /\ req.data.table_code = ""
          /\ \E t \in Coded(QueryCode(req)) : ~ActiveNow(t)
          /\ api_create_order(req).status = 403

C12_MenuHidesInactive ==
    \A req \in MenuRequests :
        \A entry \in menu_api(req).body :
            /\ \A c \in categories : c.id = entry.category => c.is_active
            /\ \A m \in menuItems : m.id \in entry.items => m.is_available

\* the menu was just served while one category is not active although it
\* holds an available item, and an active category holds an item that is not
\* available
C12_Witness ==
    /\ last.op = "menu_api"
    /\ last.status = 200
    /\ \E c \in categories, m \in menuItems :
          ~c.is_active /\ m.category = c.id /\ m.is_available
    /\ \E c \in categories, m \in menuItems :
          c.is_active /\ m.category = c.id /\ ~m.is_available

\* C15: a menu_api request bearing a table code is answered with the
\* categories and items of that table's restaurant only.
C15_MenuIsTenantScoped ==
    \A req \in MenuRequests :
        LET r == menu_api(req) IN
        (r.status = 200 /\ BorneCode(req) # "") =>
            \A t \in Coded(BorneCode(req)) :
                \A entry \in r.body :
                    /\ \A c \in categories :
                          c.id = entry.category => c.restaurant = t.restaurant
                    /\ \A m \in menuItems :
                          m.id \in entry.items => m.restaurant = t.restaurant

\* C16: in every state every order item refers to a menu item of the
\* restaurant of its order.
C16_ItemsOfOwnRestaurant ==
    \A i \in orderItems :
        \A o \in orders, m \in menuItems :
            (o.id = i.order /\ m.id = i.item) => m.restaurant = o.restaurant

\* qty times the current price of the item, line after line of the order
RECURSIVE LineSum(_, _, _, _)
LineSum(order_id, rows, menu, n) ==
    IF n = 0 THEN 0
    ELSE LineSum(order_id, rows, menu, n - 1)
         + (IF \E i \in rows : i.order = order_id /\ i.line = n
            THEN LET i == CHOOSE x \in rows : x.order = order_id /\ x.line = n
                     m == CHOOSE x \in menu : x.id = i.item
                 IN  i.qty * m.price
            ELSE 0)

ExpectedTotal(order_id, rows, menu) ==
    LineSum(order_id, rows, menu, Cardinality(rows))

\* C13: in every state the total_amount of every order is the sum over its
\* items of qty times the item's current price, 0 without items; the amount
\* OrderSerializer.get_total_amount serves is that amount to the hundredth;
\* and a read of the orders (the staff list, which serializes them) leaves a
\* store in which every total is read again as the same value.
C13_TotalIsDerived ==
    /\ \A o \in orders :
          LET total == total_amount(o.id, orderItems, menuItems) IN
          /\ total = ExpectedTotal(o.id, orderItems, menuItems)
          /\ (\A i \in orderItems : i.order # o.id) => total = 0
          /\ NearestHundredth(get_total_amount(o.id, orderItems, menuItems)) = total
    /\ \A user \in Callers, status_q \in StatusQueryInputs :
          LET r == api_staff_orders(user, status_q) IN
          /\ r.orders = orders
          /\ \A o \in orders :
                /\ total_amount(o.id, r.orderItems, menuItems)
                      = total_amount(o.id, orderItems, menuItems)
                /\ get_total_amount(o.id, r.orderItems, menuItems)
                      = get_total_amount(o.id, orderItems, menuItems)

\* the staff list was just served (serialized orders) after a price was
\* edited: an order of two lines is worth its lines at the prices of now, an
\* order without items is worth 0, and a served double is not the exact
\* amount
C13_Witness ==
    /\ last.op = "api_staff_orders"
    /\ last.status = 200
    /\ \E m \in menuItems : m.price \in PriceInputs
    /\ \E o \in orders :
          /\ Cardinality(order_items(o.id, orderItems)) = 2
          /\ total_amount(o.id, orderItems, menuItems) > 2 * 1999
    /\ \E o \in orders :
          /\ order_items(o.id, orderItems) = {}
          /\ total_amount(o.id, orderItems, menuItems) = 0
    /\ \E o \in orders : get_total_amount(o.id, orderItems, menuItems).delta # 0

\* the month of a date (days of a year that is no leap year)
Month(d) == IF d <= 31 THEN 1 ELSE IF d <= 59 THEN 2 ELSE 3

\* the orders of a selection an export is due to list
DueDaily(queryset) ==
    {o \in queryset : o.status = "PAID" /\ o.created_at = today}

DueWeekly(queryset) ==
    {o \in queryset : o.status = "PAID" /\ o.created_at <= today
                                        /\ today - o.created_at <= 7}

DueMonthly(queryset) ==
    {o \in queryset : o.status = "PAID" /\ o.created_at <= today
                                        /\ Month(o.created_at) = Month(today)}

RECURSIVE RowTotals(_)
RowTotals(rows) == IF rows = <<>> THEN 0 ELSE Head(rows).total + RowTotals(Tail(rows))

\* the file holds one row for each order due and no other row, each with the
\* order's total by the qty-times-price rule, and TOTAL SALES is their sum
ExportIsExact(csv, due) ==
    /\ Len(csv.rows) = Cardinality(due)
    /\ \A o \in due : \E k \in 1 .. Len(csv.rows) : csv.rows[k].id = o.id
    /\ \A k \in 1 .. Len(csv.rows) :
          \E o \in due :
              /\ csv.rows[k].id = o.id
              /\ csv.rows[k].total = ExpectedTotal(o.id, orderItems, menuItems)
    /\ csv.total_sum = RowTotals(csv.rows)

====
